---- MODULE Spec2Model ----
(***************************************************************************)
(* Model of the recording pipeline of the VS1053 Arduino music player:     *)
(* record() of VS1053_experimental.ino (the regular sketch carries the     *)
(* same function).  The encoder device, the SD file and the two stop       *)
(* inputs are the environment: every register read, every poll and every   *)
(* library result is an input chosen from a bounded set.                   *)
(***************************************************************************)
EXTENDS Integers, Naturals, Sequences, FiniteSets, TLC

(* ------------------------------ bounds --------------------------------- *)
\* words the encoder can deliver in one session (HDAT1 never reports more
\* than is left of it)
MaxStream == 560
\* largest value of millis() - timer the waits are observed at
MaxElapsed == 102
\* the poll counter saturates here
PollCap == 3

(* ------------------------- program constants --------------------------- *)
\* while (wordsWaiting >= ((rec_state < 2) ? 256 : 1)), min(wordsWaiting, 256)
BlockWords == 256
\* byte wbuff[256]
WBuffSize == 256
\* millis() - timer > 100UL
DreqTimeout == 100
\* uint16_t and uint8_t
Word16 == 65536
Byte8 == 256

\* SCI_AICTRL3 as the device can report it: bit 1 and bit 2, set or clear
StatusValues == { 0, 2, 4, 6 }

Min(a, b) == IF a < b THEN a ELSE b

\* bit n of register value v
Bit(v, n) == (v \div (2 ^ n)) % 2 = 1

(* --------------------- expressions of the drain loop ------------------- *)
\* mutant of DrainThreshold: the state-2 case forgotten
DrainThresholdAlwaysBlock(s) == BlockWords

\* (rec_state < 2) ? 256 : 1
DrainThreshold(s) == IF s < 2 THEN BlockWords ELSE 1

\* wordsWaiting >= ((rec_state < 2) ? 256 : 1)
DrainCond(ww, s) == ww >= DrainThreshold(s)

\* mutant of ChunkSize: the block taken as 512 words for 512 bytes
ChunkSizeDouble(ww) == Min(ww, 2 * BlockWords)

\* wordsToRead = min(wordsWaiting, 256)
ChunkSize(ww) == Min(ww, BlockWords)

\* wordsWaiting -= wordsToRead  (uint16_t)
WaitingAfter(ww) == (ww - ChunkSize(ww)) % Word16

\* if (rec_state == 2 && !wordsWaiting) {wordsToRead--;}
IsTerminalChunk(ww, s) == s = 2 /\ WaitingAfter(ww) = 0

\* wordsToRead after the terminal-chunk decrement (uint16_t)
WordsToRead(ww, s) ==
  IF IsTerminalChunk(ww, s) THEN (ChunkSize(ww) - 1) % Word16 ELSE ChunkSize(ww)

\* mutant of WordsToWrite: the halving forgotten
WordsToWriteWhole(wtr) == wtr % Byte8

\* wordsToWrite = wordsToRead / 2  (uint8_t)
WordsToWrite(wtr) == (wtr \div 2) % Byte8

\* the two passes of for (i = 0; i < 2; i++), each reading wordsToWrite words
BufferReads(wtw) == 2 * wtw

\* file.write(wbuff, 2 * wordsToWrite), once per pass and only if (wordsToWrite)
SubTransfers(wtw) == IF wtw # 0 THEN 2 ELSE 0

\* bytes of one file.write(wbuff, 2 * wordsToWrite)
SubTransferBytes(wtw) == 2 * wtw

\* highest index of wbuff the inner loop stores to: 2 * j + 1 for j = wordsToWrite - 1
MaxBufferIndex(wtw) == IF wtw = 0 THEN -1 ELSE 2 * (wtw - 1) + 1

\* A byte of the stream is named by the data word it comes from, counted in
\* the order of the reads of SCI_HDAT0 of the session, and by its half.
\* mutant of BufferStore: the two halves stored the other way round
BufferStoreSwapped(first, idx) ==
  << first + idx \div 2, IF idx % 2 = 0 THEN "low" ELSE "high" >>

\* wbuff[2 * j] = data >> 8; wbuff[2 * j + 1] = data & 0xFF; what a pass
\* whose first word is the word number first stores at wbuff[idx]
BufferStore(first, idx) ==
  << first + idx \div 2, IF idx % 2 = 0 THEN "high" ELSE "low" >>

\* A buffer is kept as far as it has been stored to, from wbuff[0] on; what
\* lies beyond is what the stack held and is read by nothing.
Stored(buf) == Cardinality(DOMAIN buf)

\* for (j = 0; j < wordsToWrite; j++): the buffer after a pass of n words
BufferFill(buf, first, n) ==
  [ idx \in 0..(IF 2 * n > Stored(buf) THEN 2 * n - 1 ELSE Stored(buf) - 1) |->
      IF idx < 2 * n THEN BufferStore(first, idx) ELSE buf[idx] ]

\* file.write(wbuff, 2 * wordsToWrite): the first 2 * wordsToWrite bytes
BufferWrite(buf, wtw) == [ i \in 1..(2 * wtw) |-> buf[i - 1] ]

\* byte wbuff[256]; before anything is stored
EmptyBuffer == << >>

\* file.write(data >> 8); if (...) file.write(data & 0xFF);
TerminalTransfer(word, low) ==
  << << word, "high" >> >> \o (IF low THEN << << word, "low" >> >> ELSE << >>)

\* mutant of IsLastBlock: <= for <
IsLastBlockInclusive(wtr) == wtr <= BlockWords

\* if (wordsToRead < 256)
IsLastBlock(wtr) == wtr < BlockWords

\* Mp3ReadRegister(SCI_AICTRL3) & (1 << 1)
StopAcknowledged(status) == Bit(status, 1)

\* mutant of WriteLowByte: bit 1 tested for bit 2
WriteLowByteBit1(status) == ~Bit(status, 1)

\* !(Mp3ReadRegister(SCI_AICTRL3) & (1 << 2)): the low byte is written too
WriteLowByte(status) == ~Bit(status, 2)

\* bytes of the last word that reach the file
TerminalBytes(status) == IF WriteLowByte(status) THEN 2 ELSE 1

\* while (!digitalRead(MP3_DREQ) || millis() - timer > 100UL) {;}
WaitContinues(dreq, el) == (~dreq) \/ el > DreqTimeout

(* ------------------------------- state --------------------------------- *)
VARIABLES
  pc,            \* position of the one thread of control
  rec_state,     \* global uint8_t rec_state
  retval,        \* value record() returned, -1 while it has not
  hasName,       \* the filename argument is not NULL
  trace,         \* register writes, plugin load, file open and close, in order
  fileOpen,      \* SdFile file is open
  fileLen,       \* bytes written to the file in this session
  elapsed,       \* millis() - timer as last observed by a wait
  wordsWaiting,  \* local uint16_t wordsWaiting
  wordsToRead,   \* local uint16_t wordsToRead
  wordsToWrite,  \* local uint8_t wordsToWrite
  wordsRead,     \* reads of SCI_HDAT0 in this session
  subtracted,    \* total taken off wordsWaiting in this session
  chunk,         \* what the last drain step did
  term,          \* what the terminal-word handling did
  hist,          \* history of the session: polls, stop, waiting counts seen
  upc,           \* position of the sketch outside record(): setup, menu, play
  counter,       \* global uint8_t counter, the highlighted menu item
  playnum,       \* global int playnum
  playlen,       \* global int playlen
  skipped,       \* local bool skipped of play()
  nav,           \* the last keys navMenu moved the counter for, oldest first
  track,         \* how the last track of play() ended and what was opened next
  recCall,       \* who called record() last, and what the caller did after it
  stale,         \* a recording wrote to the card since createPlaylist() last ran
  npc,           \* position in the filename entry of the record menu item
  recfn,         \* static uint16_t recfn of parseMenu()
  filename,      \* filename[5], filename[6], filename[7] as character codes
  cnt,           \* local uint8_t cnt of parseMenu()
  named,         \* how the filename was completed, and from which counter value
  bpc,           \* position in the transfer of blocks from SCI_HDAT0 to the file
  wbuff,         \* local byte wbuff[256] of record()
  sink,          \* the bytes of the file, in the order written
  fed,           \* reads of SCI_HDAT0 so far: the last word read is word fed
  blockWords,    \* wordsToRead of the block being transferred
  pass,          \* local int i of the two passes over the buffer
  cn,            \* createName(): its locals, the buffer trackname, its position
  pl             \* createPlaylist(): playlen, playlist, the scan of the directory

\* the variables of record()
recVars == << pc, rec_state, retval, hasName, trace, fileOpen, fileLen, elapsed,
              wordsWaiting, wordsToRead, wordsToWrite, wordsRead, subtracted,
              chunk, term, hist >>

\* the variables of the menu and of playlist playback
uiVars == << upc, counter, playnum, playlen, skipped, nav, track, recCall,
            stale >>

\* the variables of the filename entry
nameVars == << npc, recfn, filename, cnt, named >>

\* the variables of the transfer through the buffer
bufVars == << bpc, wbuff, sink, fed, blockWords, pass >>

\* the variables of the other parts of the sketch
restVars == << nameVars, bufVars, cn, pl >>

vars == << pc, rec_state, retval, hasName, trace, fileOpen, fileLen, elapsed,
           wordsWaiting, wordsToRead, wordsToWrite, wordsRead, subtracted,
           chunk, term, hist,
           upc, counter, playnum, playlen, skipped, nav, track, recCall, stale,
           npc, recfn, filename, cnt, named,
           bpc, wbuff, sink, fed, blockWords, pass, cn, pl >>

\* character codes of '0' and '9'
Char0 == 48
Char9 == 57

\* strcpy(filename, "track000.ogg"), the three characters after "track"
DefaultDigits == << Char0, Char0, Char0 >>

\* no filename completed yet
NotNamed == [ by |-> "none", n |-> -1 ]

\* record() has not been called from the menu or the serial line yet
NoCall == [ by |-> "none", calls |-> << >> ]

\* #define MENU_SIZE 9, MAX_INDEX 50, LCD_ROWS 4
MENU_SIZE == 9
MAX_INDEX == 50
LCD_ROWS == 4

\* #define MAX_BUFF 13
MAX_BUFF == 13

\* createName() has not been called: char trackname[MAX_BUFF] of the caller
\* holds no name, nothing outside it has been touched
NoName == [ pc |-> "idle", trackname |-> [ i \in 0..(MAX_BUFF - 1) |-> 0 ],
            prevkey |-> "none", cnt |-> 0, limit |-> 2, index |-> -1,
            last |-> "none", presses |-> 0, outside |-> "untouched" ]

\* createPlaylist() has not been called: playlen = 0, playlist[] = {0}
NoScan == [ pc |-> "idle", playlen |-> 0,
            playlist |-> [ i \in 0..(MAX_INDEX - 1) |-> 0 ],
            dir |-> << >>, pos |-> 0, opened |-> 0, closed |-> 0 ]

\* no track has played yet
NoTrack == [ from |-> -1, how |-> "none", key |-> "none", opened |-> -1,
             over |-> FALSE, paused |-> FALSE ]

NoChunk == [ n |-> 0, waiting |-> 0, state |-> 0, size |-> 0, reads |-> 0,
             bytes |-> 0, writes |-> 0, staged |-> 0, maxIdx |-> -1,
             underflow |-> FALSE, fileOpen |-> FALSE, entry |-> 0,
             readsBefore |-> 0, lenBefore |-> 0 ]

NoTerm == [ runs |-> 0, from |-> 0, bytes |-> 0, high |-> FALSE, low |-> FALSE,
            status2 |-> 0, fileOpen |-> FALSE, left |-> 0, lenBefore |-> 0,
            wordsBefore |-> 0 ]

NoHist == [ polls |-> 0, stopPoll |-> 0, sawWords |-> FALSE, scenC |-> 0,
            fullChunks |-> 0, visited |-> << 0 >>, readsAtOpen |-> -1,
            statusReads |-> 0, rereads |-> 0, ack |-> << >>, entered |-> -1 ]

Init ==
  /\ pc = "idle"
  /\ rec_state = 0
  /\ retval = -1
  /\ hasName = TRUE
  /\ trace = << >>
  /\ fileOpen = FALSE
  /\ fileLen = 0
  /\ elapsed = 0
  /\ wordsWaiting = 0
  /\ wordsToRead = 0
  /\ wordsToWrite = 0
  /\ wordsRead = 0
  /\ subtracted = 0
  /\ chunk = NoChunk
  /\ term = NoTerm
  /\ hist = NoHist
  /\ upc = "boot"
  /\ counter = 0
  /\ playnum = 0
  /\ playlen = 0
  /\ skipped = FALSE
  /\ nav = << >>
  /\ track = NoTrack
  /\ recCall = NoCall
  /\ stale = FALSE
  /\ npc = "menu"
  /\ recfn = 0
  /\ filename = DefaultDigits
  /\ cnt = 0
  /\ named = NotNamed
  /\ bpc = "count"
  /\ wbuff = EmptyBuffer
  /\ sink = << >>
  /\ fed = 0
  /\ blockWords = 0
  /\ pass = 0
  /\ cn = NoName
  /\ pl = NoScan

Visit(h, s) ==
  IF h.visited[Len(h.visited)] = s THEN h
  ELSE [ h EXCEPT !.visited = Append(@, s) ]

(* --------------------------- configuration ----------------------------- *)
\* record(filename) is entered: rec_state = 0; step 1, the clock write
\* mutant of EntryState: the assignment forgotten
EntryStateKept(s) == s

\* rec_state = 0; ("make sure state begins at 0"), s being what it was
EntryState(s) == 0

\* hist.entered keeps what rec_state was at the call until the next step
Call ==
  /\ pc \in { "idle", "done" }
  /\ UNCHANGED uiVars
  /\ UNCHANGED restVars
  /\ \E name \in BOOLEAN : hasName' = name
  /\ rec_state' = EntryState(rec_state)
  /\ retval' = -1
  /\ trace' = << "W_CLOCKF" >>
  /\ fileOpen' = FALSE
  /\ fileLen' = 0
  /\ elapsed' = 0
  /\ wordsWaiting' = 0
  /\ wordsToRead' = 0
  /\ wordsToWrite' = 0
  /\ wordsRead' = 0
  /\ subtracted' = 0
  /\ chunk' = NoChunk
  /\ term' = NoTerm
  /\ hist' = [ NoHist EXCEPT !.entered = rec_state ]
  /\ pc' = "wait1"

\* one evaluation of the condition of a DREQ wait
WaitDreq(at, next) ==
  /\ pc = at
  /\ UNCHANGED uiVars
  /\ UNCHANGED restVars
  /\ \E dreq \in BOOLEAN, el \in elapsed..MaxElapsed :
       IF WaitContinues(dreq, el)
       THEN /\ elapsed' = el
            /\ pc' = at
       ELSE /\ elapsed' = 0
            /\ pc' = next
  /\ hist' = [ hist EXCEPT !.entered = -1 ]
  /\ UNCHANGED << rec_state, retval, hasName, trace, fileOpen, fileLen,
                  wordsWaiting, wordsToRead, wordsToWrite, wordsRead,
                  subtracted, chunk, term >>

WaitClock == WaitDreq("wait1", "reset")
WaitReset == WaitDreq("wait2", "plugin")
WaitEncoder == WaitDreq("wait3", "loop")

\* steps 2 and 3: clear SCI_BASS, soft reset
SoftReset ==
  /\ pc = "reset"
  /\ UNCHANGED uiVars
  /\ UNCHANGED restVars
  /\ trace' = trace \o << "W_BASS", "W_MODE_RESET" >>
  /\ pc' = "wait2"
  /\ UNCHANGED << rec_state, retval, hasName, fileOpen, fileLen, elapsed,
                  wordsWaiting, wordsToRead, wordsToWrite, wordsRead,
                  subtracted, chunk, term, hist >>

\* mutant of LoadPlugin: the result of VSLoadUserCode is ignored
LoadPluginUnchecked ==
  /\ pc = "plugin"
  /\ UNCHANGED uiVars
  /\ UNCHANGED restVars
  /\ \E loadError \in BOOLEAN :
       trace' = trace \o << "W_WRAMADDR", "W_WRAM",
                            IF loadError THEN "LOAD_FAIL" ELSE "LOAD_OK" >>
  /\ pc' = "open"
  /\ UNCHANGED << rec_state, retval, hasName, fileOpen, fileLen, elapsed,
                  wordsWaiting, wordsToRead, wordsToWrite, wordsRead,
                  subtracted, chunk, term, hist >>

\* steps 4 and 5: interrupt enable, VSLoadUserCode("oggenc.053"); return 1
LoadPlugin ==
  /\ pc = "plugin"
  /\ UNCHANGED uiVars
  /\ UNCHANGED restVars
  /\ \E loadError \in BOOLEAN :
       IF loadError
       THEN /\ trace' = trace \o << "W_WRAMADDR", "W_WRAM", "LOAD_FAIL" >>
            /\ retval' = 1
            /\ pc' = "done"
       ELSE /\ trace' = trace \o << "W_WRAMADDR", "W_WRAM", "LOAD_OK" >>
            /\ retval' = retval
            /\ pc' = "open"
  /\ UNCHANGED << rec_state, hasName, fileOpen, fileLen, elapsed,
                  wordsWaiting, wordsToRead, wordsToWrite, wordsRead,
                  subtracted, chunk, term, hist >>

\* mutant of EncoderSetup: the format selection that activates the encoder
\* written before the stop flag is cleared
EncoderSetupActivateFirst == << "W_MODE_ADPCM", "W_AICTRL1", "W_AICTRL2",
                               "W_AIADDR", "W_AICTRL3_CLEAR" >>

\* the register writes of steps 6 to 11
EncoderSetup == << "W_MODE_ADPCM", "W_AICTRL1", "W_AICTRL2", "W_AICTRL3_CLEAR",
                   "W_AIADDR" >>

\* mutant of OpenSink: a failed file.open reported as 3
OpenSinkWrongCode ==
  /\ pc = "open"
  /\ UNCHANGED uiVars
  /\ UNCHANGED restVars
  /\ IF ~hasName
     THEN /\ retval' = 3
          /\ pc' = "done"
          /\ UNCHANGED << trace, fileOpen, hist >>
     ELSE \E opened \in BOOLEAN :
            IF opened
            THEN /\ trace' = (trace \o << "OPEN_OK" >>) \o EncoderSetup
                 /\ fileOpen' = TRUE
                 /\ hist' = [ hist EXCEPT !.readsAtOpen = wordsRead ]
                 /\ retval' = retval
                 /\ pc' = "wait3"
            ELSE /\ trace' = trace \o << "OPEN_FAIL" >>
                 /\ retval' = 3
                 /\ pc' = "done"
                 /\ UNCHANGED << fileOpen, hist >>
  /\ UNCHANGED << rec_state, hasName, fileLen, elapsed, wordsWaiting,
                  wordsToRead, wordsToWrite, wordsRead, subtracted, chunk, term >>

\* mutant of OpenSink: the encoder is set up before the result of file.open
\* is looked at
OpenSinkSetupFirst ==
  /\ pc = "open"
  /\ UNCHANGED uiVars
  /\ UNCHANGED restVars
  /\ IF ~hasName
     THEN /\ retval' = 3
          /\ pc' = "done"
          /\ UNCHANGED << trace, fileOpen, hist >>
     ELSE \E opened \in BOOLEAN :
            IF opened
            THEN /\ trace' = (trace \o << "OPEN_OK" >>) \o EncoderSetup
                 /\ fileOpen' = TRUE
                 /\ hist' = [ hist EXCEPT !.readsAtOpen = wordsRead ]
                 /\ retval' = retval
                 /\ pc' = "wait3"
            ELSE /\ trace' = (trace \o << "OPEN_FAIL" >>) \o EncoderSetup
                 /\ retval' = 2
                 /\ pc' = "done"
                 /\ UNCHANGED << fileOpen, hist >>
  /\ UNCHANGED << rec_state, hasName, fileLen, elapsed, wordsWaiting,
                  wordsToRead, wordsToWrite, wordsRead, subtracted, chunk, term >>

\* if (filename) file.open(...) else return 3; return 2; steps 6 to 11
OpenSink ==
  /\ pc = "open"
  /\ UNCHANGED uiVars
  /\ UNCHANGED restVars
  /\ IF ~hasName
     THEN /\ retval' = 3
          /\ pc' = "done"
          /\ UNCHANGED << trace, fileOpen, hist >>
     ELSE \E opened \in BOOLEAN :
            IF opened
            THEN /\ trace' = (trace \o << "OPEN_OK" >>) \o EncoderSetup
                 /\ fileOpen' = TRUE
                 /\ hist' = [ hist EXCEPT !.readsAtOpen = wordsRead ]
                 /\ retval' = retval
                 /\ pc' = "wait3"
            ELSE /\ trace' = trace \o << "OPEN_FAIL" >>
                 /\ retval' = 2
                 /\ pc' = "done"
                 /\ UNCHANGED << fileOpen, hist >>
  /\ UNCHANGED << rec_state, hasName, fileLen, elapsed, wordsWaiting,
                  wordsToRead, wordsToWrite, wordsRead, subtracted, chunk, term >>

(* ----------------------------- drain loop ------------------------------ *)
\* the counts of scenario C, one per poll of the loop
ScenarioCCounts == << 300, 300, 40, 0 >>

\* the waiting counts the encoder can report with wordsRead words delivered
WaitingValues == 0..Min(Word16 - 1, IF wordsRead < MaxStream THEN MaxStream - wordsRead ELSE 0)

\* the counts the first read of SCI_HDAT1 is given in an iteration whose
\* status read acknowledges the stop: none, one word, one block
FirstCounts == { c \in { 0, 1, BlockWords } : c \in WaitingValues }

\* mutant of CountUsed: the second read of SCI_HDAT1 is not assigned
CountUsedFirst(acked, first, second) == first

\* wordsWaiting when the drain sub-loop is reached: the count of line 1173,
\* or that of line 1180 when the stop was acknowledged
CountUsed(acked, first, second) == IF acked THEN second ELSE first

SerialInputs == { "none", "s", "other" }

\* how far the waiting counts of the polls so far follow ScenarioCCounts
FollowC(h, w) ==
  IF h.polls <= Len(ScenarioCCounts) /\ h.scenC = h.polls - 1
     /\ w = ScenarioCCounts[h.polls]
  THEN h.polls ELSE -1

\* if (keypad.getKey() && !rec_state) {rec_state = 1; ...}
AfterKey(s, key) == IF key /\ s = 0 THEN 1 ELSE s

\* mutant of AfterSerial: && !rec_state forgotten
AfterSerialAnyState(s, serial) == IF serial = "s" THEN 1 ELSE s

\* if (Serial.available()) if (Serial.read() == 's' && !rec_state)
\*   {rec_state = 1; ...}
AfterSerial(s, serial) == IF serial = "s" /\ s = 0 THEN 1 ELSE s

\* the Mp3WriteRegister(SCI_AICTRL3, 1) of the two tests, one for each test
\* that set rec_state
PollWrites(s, key, serial) ==
  (IF AfterKey(s, key) # s THEN << "W_AICTRL3_STOP" >> ELSE << >>)
  \o (IF AfterSerial(AfterKey(s, key), serial) # AfterKey(s, key)
      THEN << "W_AICTRL3_STOP" >> ELSE << >>)

\* while (rec_state < 3): keypad.getKey(), Serial.available(), Serial.read()
PollStop ==
  /\ pc = "loop"
  /\ UNCHANGED uiVars
  /\ UNCHANGED restVars
  /\ rec_state < 3
  /\ \E key \in BOOLEAN, serial \in SerialInputs :
       LET afterKey == AfterKey(rec_state, key)
           afterSerial == AfterSerial(afterKey, serial)
           n == Min(hist.polls + 1, PollCap)
       IN /\ rec_state' = afterSerial
          /\ trace' = trace \o PollWrites(rec_state, key, serial)
          /\ hist' = Visit([ hist EXCEPT !.polls = n,
                                         !.stopPoll = IF afterSerial # rec_state
                                                      THEN n ELSE @ ],
                           afterSerial)
  /\ chunk' = NoChunk
  /\ pc' = "hdat1"
  /\ UNCHANGED << retval, hasName, fileOpen, fileLen, elapsed, wordsWaiting,
                  wordsToRead, wordsToWrite, wordsRead, subtracted, term >>

\* mutant of ReadCounts: the test rec_state == 1 forgotten, the status
\* register is read and the acknowledge bit taken in every state
ReadCountsAnyState ==
  /\ pc = "hdat1"
  /\ UNCHANGED uiVars
  /\ UNCHANGED restVars
  /\ \E status \in StatusValues, w \in WaitingValues :
       LET acked == StopAcknowledged(status)
       IN \E first \in (IF acked THEN FirstCounts ELSE { w }) :
            /\ rec_state' = IF acked THEN 2 ELSE rec_state
            /\ wordsWaiting' = CountUsed(acked, first, w)
            /\ hist' = Visit([ hist EXCEPT
                                 !.sawWords = @ \/ first > 0 \/ w > 0,
                                 !.scenC = FollowC(hist, w),
                                 !.ack = IF acked THEN << first, w >> ELSE << >>,
                                 !.statusReads = Min(@ + 1, PollCap),
                                 !.rereads = IF acked THEN @ + 1 ELSE @ ],
                             IF acked THEN 2 ELSE rec_state)
  /\ pc' = "drain"
  /\ UNCHANGED << retval, hasName, trace, fileOpen, fileLen, elapsed,
                  wordsToRead, wordsToWrite, wordsRead, subtracted, chunk, term >>

\* wordsWaiting = Mp3ReadRegister(SCI_HDAT1);
\* if (rec_state == 1 && Mp3ReadRegister(SCI_AICTRL3) & (1 << 1))
\*   { rec_state = 2; wordsWaiting = Mp3ReadRegister(SCI_HDAT1); }
\* The status register is read only in state 1.  Without an acknowledge
\* there is one read of SCI_HDAT1, giving w; with it there are two, giving
\* first and then w.  hist.ack keeps the two counts of an acknowledging
\* iteration until its drain sub-loop has taken its first step.
ReadCounts ==
  /\ pc = "hdat1"
  /\ UNCHANGED uiVars
  /\ UNCHANGED restVars
  /\ \E status \in (IF rec_state = 1 THEN StatusValues ELSE { 0 }),
        w \in WaitingValues :
       LET acked == rec_state = 1 /\ StopAcknowledged(status)
       IN \E first \in (IF acked THEN FirstCounts ELSE { w }) :
            /\ rec_state' = IF acked THEN 2 ELSE rec_state
            /\ wordsWaiting' = CountUsed(acked, first, w)
            /\ hist' = Visit([ hist EXCEPT
                                 !.sawWords = @ \/ first > 0 \/ w > 0,
                                 !.scenC = FollowC(hist, w),
                                 !.ack = IF acked THEN << first, w >> ELSE << >>,
                                 !.statusReads = IF rec_state = 1
                                                 THEN Min(@ + 1, PollCap) ELSE @,
                                 !.rereads = IF acked THEN @ + 1 ELSE @ ],
                             IF acked THEN 2 ELSE rec_state)
  /\ pc' = "drain"
  /\ UNCHANGED << retval, hasName, trace, fileOpen, fileLen, elapsed,
                  wordsToRead, wordsToWrite, wordsRead, subtracted, chunk, term >>

\* one pass of the body of while (wordsWaiting >= ...), up to the two
\* file.write calls
DrainChunk ==
  /\ pc = "drain"
  /\ UNCHANGED uiVars
  /\ UNCHANGED restVars
  /\ DrainCond(wordsWaiting, rec_state)
  /\ LET wtr == WordsToRead(wordsWaiting, rec_state)
         wtw == WordsToWrite(wtr)
         written == IF fileOpen THEN SubTransfers(wtw) * SubTransferBytes(wtw) ELSE 0
     IN /\ wordsWaiting' = WaitingAfter(wordsWaiting)
        /\ wordsToRead' = wtr
        /\ wordsToWrite' = wtw
        /\ wordsRead' = wordsRead + BufferReads(wtw)
        /\ fileLen' = fileLen + written
        /\ subtracted' = subtracted + ChunkSize(wordsWaiting)
        /\ chunk' = [ n |-> chunk.n + 1,
                      waiting |-> wordsWaiting,
                      state |-> rec_state,
                      size |-> ChunkSize(wordsWaiting),
                      reads |-> BufferReads(wtw),
                      bytes |-> written,
                      writes |-> SubTransfers(wtw),
                      staged |-> wtw,
                      maxIdx |-> MaxBufferIndex(wtw),
                      underflow |-> \/ wordsWaiting - ChunkSize(wordsWaiting) < 0
                                    \/ /\ IsTerminalChunk(wordsWaiting, rec_state)
                                       /\ ChunkSize(wordsWaiting) - 1 < 0,
                      fileOpen |-> fileOpen,
                      entry |-> IF chunk.n = 0 THEN wordsWaiting ELSE chunk.entry,
                      readsBefore |-> wordsRead,
                      lenBefore |-> fileLen ]
        /\ hist' = [ hist EXCEPT !.fullChunks =
                       IF rec_state < 2 /\ wtr = BlockWords THEN @ + 1 ELSE @,
                                 !.ack = << >> ]
        /\ pc' = IF IsLastBlock(wtr) THEN "terminal" ELSE "drain"
  /\ UNCHANGED << rec_state, retval, hasName, trace, fileOpen, elapsed, term >>

\* mutant of TerminalStatus: bit 2 taken from the first read
TerminalStatusFirst(status1, status2) == status1

\* Mp3ReadRegister(SCI_AICTRL3); if (!(Mp3ReadRegister(SCI_AICTRL3) & ...)):
\* the value of the first read is dropped, the second is tested
TerminalStatus(status1, status2) == status2

\* the device and file accesses of the terminal-word handling, in order
TerminalAccesses(low) ==
  << "R_HDAT0_LAST", "WRITE_HIGH", "R_AICTRL3", "R_AICTRL3" >>
  \o (IF low THEN << "WRITE_LOW" >> ELSE << >>)

\* if (wordsToRead < 256): state 3, the last word, its high byte, two reads
\* of SCI_AICTRL3, its low byte
TerminalWord ==
  /\ pc = "terminal"
  /\ UNCHANGED uiVars
  /\ UNCHANGED restVars
  /\ \E status1 \in StatusValues, status2 \in StatusValues :
       LET tested == TerminalStatus(status1, status2)
           bytes == TerminalBytes(tested)
       IN /\ fileLen' = IF fileOpen THEN fileLen + bytes ELSE fileLen
          /\ trace' = trace \o TerminalAccesses(WriteLowByte(tested))
          /\ term' = [ runs |-> term.runs + 1,
                       from |-> rec_state,
                       bytes |-> IF fileOpen THEN bytes ELSE 0,
                       high |-> fileOpen,
                       low |-> fileOpen /\ WriteLowByte(tested),
                       status2 |-> status2,
                       fileOpen |-> fileOpen,
                       left |-> wordsWaiting,
                       lenBefore |-> fileLen,
                       wordsBefore |-> wordsRead ]
  /\ rec_state' = 3
  /\ wordsRead' = wordsRead + 1
  /\ hist' = Visit(hist, 3)
  /\ pc' = "drain"
  /\ UNCHANGED << retval, hasName, fileOpen, elapsed, wordsWaiting,
                  wordsToRead, wordsToWrite, subtracted, chunk >>

\* the condition of the drain sub-loop is false: back to while (rec_state < 3).
\* The three locals are dead from here on (the next iteration assigns each
\* before it reads it), so the model does not carry their values further.
DrainExit ==
  /\ pc = "drain"
  /\ UNCHANGED uiVars
  /\ UNCHANGED restVars
  /\ ~DrainCond(wordsWaiting, rec_state)
  /\ pc' = "loop"
  /\ wordsWaiting' = 0
  /\ wordsToRead' = 0
  /\ wordsToWrite' = 0
  /\ hist' = [ hist EXCEPT !.ack = << >> ]
  /\ UNCHANGED << rec_state, retval, hasName, trace, fileOpen, fileLen,
                  elapsed, wordsRead, subtracted, chunk, term >>

\* mutant of Teardown: the soft reset issued before file.close()
TeardownResetFirst ==
  /\ pc = "loop"
  /\ UNCHANGED uiVars
  /\ UNCHANGED restVars
  /\ ~(rec_state < 3)
  /\ fileOpen' = FALSE
  /\ trace' = trace \o << "W_MODE_RESET", "CLOSE" >>
  /\ retval' = 0
  /\ pc' = "done"
  /\ UNCHANGED << rec_state, hasName, fileLen, elapsed, wordsWaiting,
                  wordsToRead, wordsToWrite, wordsRead, subtracted, chunk,
                  term, hist >>

\* mutant of Teardown: file.close() forgotten
TeardownNoClose ==
  /\ pc = "loop"
  /\ UNCHANGED uiVars
  /\ UNCHANGED restVars
  /\ ~(rec_state < 3)
  /\ trace' = trace \o << "W_MODE_RESET" >>
  /\ retval' = 0
  /\ pc' = "done"
  /\ UNCHANGED << rec_state, hasName, fileOpen, fileLen, elapsed, wordsWaiting,
                  wordsToRead, wordsToWrite, wordsRead, subtracted, chunk,
                  term, hist >>

\* file.close(); soft reset; return 0
Teardown ==
  /\ pc = "loop"
  /\ UNCHANGED uiVars
  /\ UNCHANGED restVars
  /\ ~(rec_state < 3)
  /\ fileOpen' = FALSE
  /\ trace' = trace \o << "CLOSE", "W_MODE_RESET" >>
  /\ retval' = 0
  /\ pc' = "done"
  /\ UNCHANGED << rec_state, hasName, fileLen, elapsed, wordsWaiting,
                  wordsToRead, wordsToWrite, wordsRead, subtracted, chunk,
                  term, hist >>

Next ==
  \/ Call
  \/ WaitClock
  \/ SoftReset
  \/ WaitReset
  \/ LoadPlugin
  \/ OpenSink
  \/ WaitEncoder
  \/ PollStop
  \/ ReadCounts
  \/ DrainChunk
  \/ TerminalWord
  \/ DrainExit
  \/ Teardown

Spec == Init /\ [][Next]_vars

\* the sketch runs on: loop() keeps calling, every loop keeps iterating
FairSpec == Spec /\ WF_vars(Next)

\* the drain loop and what follows it run on: none of these steps waits for
\* the device or for the user
FairDrain ==
  /\ Spec
  /\ WF_vars(DrainChunk)
  /\ WF_vars(TerminalWord)
  /\ WF_vars(DrainExit)
  /\ WF_vars(Teardown)

TypeOK ==
  /\ rec_state \in 0..3
  /\ retval \in -1..3
  /\ wordsWaiting \in 0..(Word16 - 1)
  /\ wordsToWrite \in 0..(Byte8 - 1)

(* ------------------------ menu and playlist playback ------------------- *)
\* music files createPlaylist() can find on the card
MaxFiles == 3

\* the keys of the 4x4 keypad, as keypad.getKey() returns them
Keys == { "0", "1", "2", "3", "4", "5", "6", "7", "8", "9",
          "A", "B", "C", "D", "*", "#" }

ENTER == "5"
UP == "2"
DOWN == "8"
RIGHT == "6"
LEFT == "4"
BACK == "*"

\* case UP: counter = counter ? counter - 1 : MENU_SIZE - 1;
NavUp(c) == IF c # 0 THEN c - 1 ELSE MENU_SIZE - 1

\* mutant of NavLeft: the wrap counted from LCD_ROWS, not LCD_ROWS - 1
NavLeftFullScreen(c) ==
  IF c >= LCD_ROWS - 1 THEN c - (LCD_ROWS - 1)
  ELSE (MENU_SIZE - (LCD_ROWS - c)) % Byte8

\* case LEFT: if (counter >= LCD_ROWS - 1) {counter -= LCD_ROWS - 1;}
\*            else {counter = MENU_SIZE - (LCD_ROWS - 1 - counter);}
NavLeft(c) ==
  IF c >= LCD_ROWS - 1 THEN c - (LCD_ROWS - 1)
  ELSE (MENU_SIZE - (LCD_ROWS - 1 - c)) % Byte8

\* case RIGHT: counter = (counter + LCD_ROWS - 1) % MENU_SIZE;
NavRight(c) == ((c + LCD_ROWS - 1) % MENU_SIZE) % Byte8

\* mutant of NavDown: the wrap to the first item forgotten
NavDownNoWrap(c) == (c + 1) % Byte8

\* case DOWN: if (++counter == MENU_SIZE) {counter = 0;}
NavDown(c) == IF (c + 1) % Byte8 = MENU_SIZE THEN 0 ELSE (c + 1) % Byte8

\* the switch of navMenu for a key other than ENTER
NavCounter(key, c) ==
  CASE key = UP -> NavUp(c)
    [] key = LEFT -> NavLeft(c)
    [] key = RIGHT -> NavRight(c)
    [] key = DOWN -> NavDown(c)
    [] OTHER -> 0

\* displayMenu(): the indices of menu[] it reads for the three lines
DisplayRows(c) == << c, (c + 1) % MENU_SIZE, (c + 2) % MENU_SIZE >>

\* the last two keys that moved the counter and the counter each of them
\* found; a key of the default case, which resets the counter, starts anew
Remember(h, key, c) ==
  LET e == [ key |-> key, from |-> c ]
  IN IF key \notin { UP, DOWN, LEFT, RIGHT } THEN << >>
     ELSE IF Len(h) < 2 THEN Append(h, e) ELSE << h[2], e >>

\* setup(): createPlaylist() counts the music files, at most MAX_INDEX;
\* displayMenu()
Setup ==
  /\ upc = "boot"
  /\ UNCHANGED restVars
  /\ stale' = FALSE
  /\ UNCHANGED recCall
  /\ \E files \in 0..MaxFiles : playlen' = Min(files, MAX_INDEX)
  /\ upc' = "menu"
  /\ UNCHANGED << counter, playnum, skipped, nav, track >>
  /\ UNCHANGED recVars

\* loop(): keypad.getKey() returned a key other than ENTER; navMenu(key)
NavKey ==
  /\ upc = "menu"
  /\ UNCHANGED restVars
  /\ UNCHANGED << recCall, stale >>
  /\ \E key \in Keys \ { ENTER } :
       /\ counter' = NavCounter(key, counter)
       /\ nav' = Remember(nav, key, counter)
  /\ UNCHANGED << upc, playnum, playlen, skipped, track >>
  /\ UNCHANGED recVars

\* navMenu(ENTER), parseMenu(0): play() up to its loop
EnterPlay ==
  /\ upc = "menu"
  /\ UNCHANGED restVars
  /\ UNCHANGED << recCall, stale >>
  /\ counter = 0
  /\ playnum' = 0
  /\ skipped' = TRUE
  /\ track' = NoTrack
  /\ nav' = << >>
  /\ upc' = "playLoop"
  /\ UNCHANGED << counter, playlen >>
  /\ UNCHANGED recVars

\* what parseMenu() calls after record(filename) has returned
AfterMenuRecord == << "createPlaylist", "vs_init", "setVolume80" >>

\* mutant of AfterSerialRecord: the volume left as vs_init() sets it
AfterSerialRecordNoVolume == << "vs_init" >>

\* what parseSerial() calls after record() has returned
AfterSerialRecord == << "vs_init", "setVolume80" >>

\* createPlaylist() is among the calls
Rebuilds(calls) == \E i \in 1..Len(calls) : calls[i] = "createPlaylist"

\* the card holds data the playlist was not built from: a recording that
\* returned 0 has written a file, createPlaylist() reads the card again
StaleAfter(was, outcome, calls) ==
  IF Rebuilds(calls) THEN FALSE ELSE was \/ outcome = 0

\* navMenu(ENTER), parseMenu(2): record(filename) with its outcome, then
\* createPlaylist(), vs_init(), setVolume(80, 80); record() is given the
\* array filename, and what it does step by step is the subject of Spec
EnterRecord ==
  /\ upc = "menu"
  /\ UNCHANGED restVars
  /\ counter = 2
  /\ \E outcome \in { 0, 1, 2 }, files \in 0..MaxFiles :
       /\ retval' = outcome
       /\ rec_state' = IF outcome = 0 THEN 3 ELSE 0
       /\ playlen' = IF Rebuilds(AfterMenuRecord)
                     THEN Min(files, MAX_INDEX) ELSE playlen
       /\ stale' = StaleAfter(stale, outcome, AfterMenuRecord)
  /\ recCall' = [ by |-> "menu", calls |-> AfterMenuRecord ]
  /\ hasName' = TRUE
  /\ nav' = << >>
  /\ UNCHANGED << upc, counter, playnum, skipped, track >>
  /\ UNCHANGED << pc, trace, fileOpen, fileLen, elapsed, wordsWaiting,
                  wordsToRead, wordsToWrite, wordsRead, subtracted, chunk,
                  term, hist >>

\* loop(): no key, the serial line holds the command '*'; parseSerial():
\* record((char*) extra_command) with its outcome, then vs_init(),
\* setVolume(80, 80); extra_command is buff + 1, never NULL
SerialRecord ==
  /\ upc = "menu"
  /\ UNCHANGED restVars
  /\ \E outcome \in { 0, 1, 2 }, files \in 0..MaxFiles :
       /\ retval' = outcome
       /\ rec_state' = IF outcome = 0 THEN 3 ELSE 0
       /\ playlen' = IF Rebuilds(AfterSerialRecord)
                     THEN Min(files, MAX_INDEX) ELSE playlen
       /\ stale' = StaleAfter(stale, outcome, AfterSerialRecord)
  /\ recCall' = [ by |-> "serial", calls |-> AfterSerialRecord ]
  /\ hasName' = TRUE
  /\ UNCHANGED << upc, counter, playnum, skipped, nav, track >>
  /\ UNCHANGED << pc, trace, fileOpen, fileLen, elapsed, wordsWaiting,
                  wordsToRead, wordsToWrite, wordsRead, subtracted, chunk,
                  term, hist >>

\* navMenu(ENTER), parseMenu(count) for the other items: they act on the
\* player library and leave the globals of the sketch alone
EnterOther ==
  /\ upc = "menu"
  /\ UNCHANGED restVars
  /\ UNCHANGED << recCall, stale >>
  /\ counter \notin { 0, 2 }
  /\ nav' = << >>
  /\ UNCHANGED << upc, counter, playnum, playlen, skipped, track >>
  /\ UNCHANGED recVars

\* mutant of AdvanceIfNotSkipped: the test of skipped forgotten
AdvanceAlways(sk, pn) == pn + 1

\* if (!skipped) {playnum++;}
AdvanceIfNotSkipped(sk, pn) == IF ~sk THEN pn + 1 ELSE pn

\* what one pass of the loop of play() can come to: file.open failed,
\* file.getFilename failed, playMP3 returned an error, the track plays
PlayOutcomes == { "open_fail", "name_fail", "play_fail", "playing" }

\* one pass of while (playnum < playlen) up to the call of play_commands()
PlayNext ==
  /\ upc = "playLoop"
  /\ UNCHANGED restVars
  /\ UNCHANGED << recCall, stale >>
  /\ playnum < playlen
  /\ LET p == AdvanceIfNotSkipped(skipped, playnum)
     IN \E outcome \in PlayOutcomes :
          /\ playnum' = IF outcome = "play_fail" THEN p + 1 ELSE p
          /\ upc' = IF outcome = "playing" THEN "playing" ELSE "playLoop"
          /\ track' = [ track EXCEPT !.opened = IF @ = -1 THEN p ELSE @ ]
  /\ skipped' = FALSE
  /\ UNCHANGED << counter, playlen, nav >>
  /\ UNCHANGED recVars

\* while (playnum < playlen) is false: play() and parseMenu() return,
\* displayMenu(); the local skipped and the record of the playback end here
PlayReturn ==
  /\ upc = "playLoop"
  /\ UNCHANGED restVars
  /\ UNCHANGED << recCall, stale >>
  /\ ~(playnum < playlen)
  /\ upc' = "menu"
  /\ track' = NoTrack
  /\ skipped' = FALSE
  /\ UNCHANGED << counter, playnum, playlen, nav >>
  /\ UNCHANGED recVars

\* case LEFT: playnum ? playnum-- : playnum = playlen - 1;
PreviousTrack(pn, len) == IF pn # 0 THEN pn - 1 ELSE len - 1

\* case RIGHT: playnum++;
NextTrack(pn) == pn + 1

\* mutant of ExitPlaynum: playnum left where it is
ExitPlaynumKept(pn, len) == pn

\* case BACK: default: playnum = playlen;
ExitPlaynum(pn, len) == len

\* the keys of play_commands() that have a case of their own
RestartKey == "A"
AdjustKeys == { "1", "3", "7", "9" }

\* the track that was playing at playnum has been stopped or is over
Ended(how, key) ==
  [ from |-> playnum, how |-> how, key |-> key, opened |-> -1,
    over |-> FALSE, paused |-> FALSE ]

\* play_commands(): keypad.getKey() returned a key while the track plays.
\* stopTrack() makes isPlaying() false, so a key that stops the track ends
\* play_commands(), whose result goes to skipped.  Play speed and volume are
\* registers of the player, not state of the sketch.
PlayKey ==
  /\ upc = "playing"
  /\ UNCHANGED restVars
  /\ UNCHANGED << recCall, stale >>
  /\ \E key \in Keys :
       CASE key = RestartKey ->
              /\ track' = Ended("restart", key)
              /\ skipped' = TRUE
              /\ upc' = "playLoop"
              /\ UNCHANGED << playnum, counter >>
         [] key = LEFT ->
              /\ playnum' = PreviousTrack(playnum, playlen)
              /\ track' = Ended("previous", key)
              /\ skipped' = TRUE
              /\ upc' = "playLoop"
              /\ UNCHANGED counter
         [] key = RIGHT ->
              /\ playnum' = NextTrack(playnum)
              /\ track' = Ended("next", key)
              /\ skipped' = TRUE
              /\ upc' = "playLoop"
              /\ UNCHANGED counter
         [] key = ENTER ->
              /\ track' = [ track EXCEPT !.paused = ~@ ]
              /\ UNCHANGED << playnum, counter, skipped, upc >>
         [] key \in AdjustKeys ->
              UNCHANGED << playnum, counter, skipped, upc, track >>
         [] OTHER ->
              /\ playnum' = ExitPlaynum(playnum, playlen)
              /\ counter' = 0
              /\ track' = Ended("exit", key)
              /\ skipped' = FALSE
              /\ upc' = "playLoop"
  /\ UNCHANGED << playlen, nav >>
  /\ UNCHANGED recVars

\* isPlaying() turned false by itself: play_commands() returns false
TrackEnds ==
  /\ upc = "playing"
  /\ UNCHANGED restVars
  /\ UNCHANGED << recCall, stale >>
  /\ ~track.paused
  /\ track' = Ended("end", "none")
  /\ skipped' = FALSE
  /\ upc' = "playLoop"
  /\ UNCHANGED << counter, playnum, playlen, nav >>
  /\ UNCHANGED recVars

NextUI ==
  \/ Setup
  \/ NavKey
  \/ EnterPlay
  \/ EnterRecord
  \/ SerialRecord
  \/ EnterOther
  \/ PlayNext
  \/ PlayReturn
  \/ PlayKey
  \/ TrackEnds

\* the sketch from setup() on, driven by the keypad
SpecUI == Init /\ [][NextUI]_vars

(* -------------------- filename entry of the record item ---------------- *)
\* largest digit typed into the filename in the model
MaxDigit == 1

\* if (recfn == 999) {recfn = 0;}
RecfnWrap == 999

\* filename[5] = (recfn / 100) + '0'; filename[6] = (recfn / 10) + '0';
\* filename[7] = (recfn % 10) + '0';  (each stored into a char)
CounterDigits(n) ==
  << ((n \div 100) + Char0) % Byte8,
     ((n \div 10) + Char0) % Byte8,
     ((n % 10) + Char0) % Byte8 >>

\* recfn++; if (recfn == 999) {recfn = 0;}
NextRecfn(n) ==
  LET m == (n + 1) % Word16
  IN IF m = RecfnWrap THEN 0 ELSE m

\* parseMenu(2) up to the loop over keypad.waitForKey()
BeginName ==
  /\ npc \in { "menu", "named" }
  /\ filename' = DefaultDigits
  /\ cnt' = 0
  /\ named' = NotNamed
  /\ npc' = "entry"
  /\ UNCHANGED recfn
  /\ UNCHANGED << recVars, uiVars, bufVars, cn, pl >>

\* isDigit(key): filename[5 + cnt++] = key; if (cnt == 3) {break;}
NameDigit ==
  /\ npc = "entry"
  /\ \E d \in 0..MaxDigit :
       filename' = [ filename EXCEPT ![cnt + 1] = Char0 + d ]
  /\ cnt' = cnt + 1
  /\ IF cnt + 1 = 3
     THEN /\ npc' = "named"
          /\ named' = [ by |-> "digits", n |-> -1 ]
     ELSE UNCHANGED << npc, named >>
  /\ UNCHANGED recfn
  /\ UNCHANGED << recVars, uiVars, bufVars, cn, pl >>

\* key == 'A': the name is taken from recfn; break
NameCounter ==
  /\ npc = "entry"
  /\ filename' = CounterDigits(recfn)
  /\ recfn' = NextRecfn(recfn)
  /\ named' = [ by |-> "A", n |-> recfn ]
  /\ npc' = "named"
  /\ UNCHANGED cnt
  /\ UNCHANGED << recVars, uiVars, bufVars, cn, pl >>

NextName ==
  \/ BeginName
  \/ NameDigit
  \/ NameCounter

\* the record item entered again and again; any other key leaves the loop
\* and its variables as they are
SpecName == Init /\ [][NextName]_vars

(* ------------------------------ properties ----------------------------- *)
Has(e) == \E i \in DOMAIN trace : trace[i] = e

Count(e) == Cardinality({ i \in DOMAIN trace : trace[i] = e })

InSession == pc \notin { "idle", "done" }

\* the register writes up to the plugin load
ConfigPrefix == << "W_CLOCKF", "W_BASS", "W_MODE_RESET", "W_WRAMADDR", "W_WRAM" >>

\* C1: between entry and return of record() the recording state stays or
\* advances by exactly one in every step: it never decreases and never skips
\* a state.
C1_StateMonotone ==
  [][ InSession => (rec_state' = rec_state \/ rec_state' = rec_state + 1) ]_vars

\* a session that went through all four states, one after the other
C1_Witness == rec_state = 3 /\ hist.visited = << 0, 1, 2, 3 >> /\ retval = 0

\* the words a drain step has to move through the buffer: all of the chunk,
\* or all but the terminal word when the chunk exhausts the count in state 2
ChunkWordsDue ==
  IF chunk.state = 2 /\ chunk.waiting <= BlockWords
  THEN chunk.size - 1 ELSE chunk.size

\* C2: no word is lost: every drain step reads from the data register and
\* writes to the sink as many words as the chunk size computed for it (the
\* terminal chunk one less, that word being the terminal word), and a
\* finished session has read as many words as it took off the waiting counts.
C2_NoWordLost ==
  /\ chunk.n > 0 =>
       /\ chunk.size = Min(chunk.waiting, 256)
       /\ chunk.reads = ChunkWordsDue
       /\ chunk.bytes = 2 * ChunkWordsDue
  /\ retval = 0 => wordsRead = subtracted

\* C3: in a session that finished the high byte of the last word was written,
\* and the last word added one byte to the file when bit 2 of the second
\* status read was set, two bytes when it was clear.
C3_TerminalParity ==
  (pc = "done" /\ retval = 0) =>
    /\ term.runs = 1
    /\ term.high
    /\ term.low = ~Bit(term.status2, 2)
    /\ fileLen - term.lenBefore = (IF Bit(term.status2, 2) THEN 1 ELSE 2)

\* a finished session whose second status read had bit 2 set
C3_Witness ==
  /\ pc = "done" /\ retval = 0
  /\ Bit(term.status2, 2)
  /\ fileLen - term.lenBefore = 1

\* scenario A so far: plugin loaded, sink created, the stop request seen on
\* the first poll, no waiting count above 0
ScenarioA ==
  /\ InSession
  /\ Has("LOAD_OK") /\ Has("OPEN_OK")
  /\ hist.polls >= 1 /\ hist.stopPoll = 1
  /\ ~hist.sawWords

\* C4: in scenario A, once the stop is acknowledged, record() goes on to
\* return Success with at most one byte in the file, having visited the
\* states 0, 1, 2, 3 (or the scenario ends: a count above 0 is reported).
C4_ScenarioA_Returns ==
  (ScenarioA /\ rec_state = 2)
    ~> \/ (InSession /\ ~ScenarioA)
       \/ /\ retval = 0
          /\ hist.visited = << 0, 1, 2, 3 >>
          /\ fileLen \in { 0, 1 }

\* scenario C so far: counts 300, 300, 40 at the first three polls, the stop
\* request seen at the third
ScenarioC == InSession /\ hist.scenC = 3 /\ hist.stopPoll = 3

\* C5: in scenario C two full chunks are written before state 2, and the
\* chunk of the 40 remaining words moves 39 words through the buffer and
\* leaves one as the terminal word.
C5_ScenarioC ==
  (ScenarioC /\ term.runs = 1) =>
    /\ hist.fullChunks = 2
    /\ chunk.state = 2 /\ chunk.waiting = 40
    /\ chunk.reads = 39
    /\ chunk.bytes = 78

\* C6: a failed plugin load ends record() with 1, the load being the last
\* thing done to the device: no file opened, no encoder register written, no
\* poll, no word read.
C6_PluginLoadFailed ==
  /\ Has("LOAD_FAIL") =>
       /\ pc = "done" /\ retval = 1
       /\ trace = Append(ConfigPrefix, "LOAD_FAIL")
       /\ ~fileOpen /\ fileLen = 0
       /\ hist.polls = 0 /\ wordsRead = 0
  /\ retval = 1 => Has("LOAD_FAIL")

C6_Witness == pc = "done" /\ retval = 1 /\ Has("LOAD_FAIL")

\* C7: a failed file.open ends record() with 2, after the plugin was loaded
\* and with nothing written to the device afterwards: no file open, no poll,
\* no word read.
C7_SinkCreateFailed ==
  /\ Has("OPEN_FAIL") =>
       /\ pc = "done" /\ retval = 2
       /\ trace = ConfigPrefix \o << "LOAD_OK", "OPEN_FAIL" >>
       /\ ~fileOpen /\ fileLen = 0
       /\ hist.polls = 0 /\ wordsRead = 0
  /\ retval = 2 => Has("OPEN_FAIL")

C7_Witness == pc = "done" /\ retval = 2 /\ Has("LOAD_OK") /\ Has("OPEN_FAIL")

\* C8: the body of the drain sub-loop runs in state 0 or 1 only with at least
\* 256 words waiting and in state 2 only with at least 1; the sub-loop is left
\* in state 0 or 1 only with fewer than 256 words waiting and in state 2 only
\* with none.
C8_DrainThreshold ==
  [][ /\ chunk'.n > chunk.n =>
           IF rec_state < 2 THEN wordsWaiting >= 256 ELSE wordsWaiting >= 1
      /\ (pc = "drain" /\ pc' = "loop") =>
           IF rec_state < 2 THEN wordsWaiting < 256 ELSE wordsWaiting = 0
    ]_vars

\* state 2 drained a single waiting word
C8_Witness == chunk.n > 0 /\ chunk.state = 2 /\ chunk.waiting = 1

\* C9: a drain step stages at most 128 words per write, stores to indices of
\* wbuff below 256 only, writes the buffer at most twice with at most 256
\* bytes each, and its 16-bit arithmetic does not wrap.
C9_BufferCapacity ==
  chunk.n > 0 =>
    /\ chunk.staged <= 128
    /\ chunk.maxIdx >= -1 /\ chunk.maxIdx < WBuffSize
    /\ chunk.writes <= 2
    /\ 2 * chunk.staged <= 256
    /\ ~chunk.underflow
    /\ wordsToRead <= chunk.size

\* a full block: 128 words staged twice, the buffer filled to its last byte
C9_Witness ==
  chunk.n > 0 /\ chunk.staged = 128 /\ chunk.maxIdx = 255 /\ chunk.writes = 2

\* C10: the file is open before the first data word is read, every write
\* finds it open, it is closed only with the terminal word resolved, and a
\* successful run has closed it exactly once.
C10_SinkLifetime ==
  /\ wordsRead > 0 => hist.readsAtOpen = 0
  /\ chunk.writes > 0 => chunk.fileOpen
  /\ term.runs > 0 => term.fileOpen
  /\ Has("CLOSE") => (term.runs = 1 /\ term.high /\ rec_state = 3)
  /\ Count("CLOSE") <= 1
  /\ retval = 0 => (Count("CLOSE") = 1 /\ ~fileOpen)

\* a successful run after data was read and the terminal word written
C10_Witness ==
  /\ retval = 0 /\ Count("CLOSE") = 1
  /\ wordsRead > 1 /\ term.runs = 1 /\ fileLen > 2

\* C11: each of the three DREQ waits is over once 100 ms have elapsed since
\* it began: no evaluation of a wait condition at more than 100 ms leaves
\* record() waiting.
C11_WaitBounded ==
  pc \in { "wait1", "wait2", "wait3" } => elapsed <= DreqTimeout

\* C12 as stated: between two consecutive polls of the stop inputs at most one
\* chunk is transferred.
C12_OneChunkPerPoll == chunk.n <= 1

\* C12: between two consecutive polls of the stop inputs every chunk
\* transferred has at most 256 words, and the number of chunks is bounded by
\* the count read at that poll: one chunk for every 256 words or part of
\* them, and in states 0 and 1 full blocks only.
C12_BoundedPerPoll ==
  chunk.n > 0 =>
    /\ chunk.size <= 256
    /\ chunk.reads <= 256
    /\ chunk.bytes <= 512
    /\ chunk.n <= (chunk.entry + 255) \div 256
    /\ chunk.state < 2 => chunk.n <= chunk.entry \div 256

\* a count of 512 or more drained as two blocks after one poll
C12_Witness ==
  chunk.n = 2 /\ chunk.entry >= 512 /\ chunk.size = 256 /\ chunk.state = 0

\* C13: SCI_AICTRL3 is not read for the acknowledge bit before a poll has
\* observed a stop request and the stop bit has been written; and the
\* terminal word is read only after all the words the last chunk staged in
\* the buffer have been read from the device and written to the file.
C13_Ordering ==
  /\ hist.statusReads > 0 => (hist.stopPoll > 0 /\ Has("W_AICTRL3_STOP"))
  /\ hist.rereads > 0 => hist.statusReads > 0
  /\ term.runs > 0 =>
       /\ chunk.n > 0
       /\ Has("W_AICTRL3_STOP")
       /\ chunk.reads = 2 * chunk.staged
       /\ chunk.bytes = 2 * chunk.reads
       /\ term.wordsBefore = chunk.readsBefore + chunk.reads
       /\ term.lenBefore = chunk.lenBefore + chunk.bytes

\* a terminal word read after a chunk that moved words through the buffer,
\* in a session whose acknowledge bit was tested after the stop request
C13_Witness ==
  /\ term.runs = 1 /\ chunk.reads > 0 /\ chunk.bytes > 0
  /\ hist.statusReads > 0 /\ hist.stopPoll > 0

\* C14: once state 3 is reached no further poll, read or write happens and
\* the loop is left; 0 is returned only from state 3, by the step that closes
\* the file and then writes the soft reset, in that order; and whenever
\* record() returns, with 0, 1, 2 or 3, the file is not open.
C14_Teardown ==
  [][ /\ (rec_state = 3 /\ InSession) =>
           /\ pc' \in { "drain", "loop", "done" }
           /\ rec_state' = 3
           /\ hist' = hist /\ wordsRead' = wordsRead /\ fileLen' = fileLen
      /\ (rec_state = 3 /\ pc = "loop") => (pc' = "done" /\ retval' = 0)
      /\ (retval' = 0 /\ retval # 0) =>
           /\ rec_state = 3 /\ pc = "loop" /\ fileOpen
           /\ trace' = trace \o << "CLOSE", "W_MODE_RESET" >>
           /\ pc' = "done"
      /\ pc' = "done" => (~fileOpen' /\ retval' \in 0..3)
    ]_vars

\* record() returned 0 with the close and the soft reset last in the trace
C14_Witness ==
  /\ pc = "done" /\ retval = 0 /\ rec_state = 3 /\ ~fileOpen
  /\ Len(trace) >= 2
  /\ trace[Len(trace) - 1] = "CLOSE" /\ trace[Len(trace)] = "W_MODE_RESET"

\* the configuration of a run whose plugin load and file open succeed
ConfigOrder ==
  << "W_CLOCKF", "W_BASS", "W_MODE_RESET", "W_WRAMADDR", "W_WRAM", "LOAD_OK",
     "OPEN_OK", "W_MODE_ADPCM", "W_AICTRL1", "W_AICTRL2", "W_AICTRL3_CLEAR",
     "W_AIADDR" >>

\* C15: a run whose plugin load and file open succeed has done exactly the
\* steps of ConfigOrder, in that order, when it enters the last DREQ wait; the
\* waits after the clock write and after the soft reset come at their places;
\* and no waiting count, status or data word is read before the last wait is
\* over.
C15_ConfigOrder ==
  /\ pc = "wait1" => trace = SubSeq(ConfigOrder, 1, 1)
  /\ pc = "wait2" => trace = SubSeq(ConfigOrder, 1, 3)
  /\ pc = "wait3" => trace = ConfigOrder
  /\ Has("OPEN_OK") =>
       /\ Len(trace) >= Len(ConfigOrder)
       /\ SubSeq(trace, 1, Len(ConfigOrder)) = ConfigOrder
  /\ (pc \in { "wait1", "reset", "wait2", "plugin", "open", "wait3" }
      \/ ~Has("OPEN_OK")) =>
       /\ hist.polls = 0 /\ hist.statusReads = 0
       /\ wordsRead = 0 /\ chunk.n = 0 /\ term.runs = 0

\* the last wait of a configured run; later, data read in such a run
C15_Witness ==
  /\ Has("W_AIADDR") /\ Has("W_AICTRL3_CLEAR")
  /\ hist.polls > 0 /\ wordsRead > 0
  /\ SubSeq(trace, 1, Len(ConfigOrder)) = ConfigOrder

\* C16: record() returns 3 only for a NULL filename and never for a call that
\* passes a name (as both call sites do, each passing an array); when 3 is
\* returned the plugin load is the last thing done: no file.open was tried, no
\* file is open, and none of SCI_MODE (input source), SCI_AICTRL1,
\* SCI_AICTRL2, SCI_AICTRL3, SCI_AIADDR has been written after the load.
C16_NoFilename ==
  /\ retval = 3 =>
       /\ ~hasName
       /\ pc = "done"
       /\ trace = Append(ConfigPrefix, "LOAD_OK")
       /\ ~fileOpen /\ fileLen = 0
       /\ hist.polls = 0 /\ wordsRead = 0
  /\ hasName =>
       /\ retval # 3
       /\ pc = "done" => retval \in { 0, 1, 2 }
  /\ (~hasName /\ pc = "done") => retval \in { 1, 3 }

\* a call without a filename that came back with 3
C16_Witness == pc = "done" /\ retval = 3 /\ ~hasName /\ Has("LOAD_OK")

\* C17: as long as no poll of a session has observed a stop request the
\* session stays in state 0 and has not returned: whatever counts the device
\* reports, the status register is not even read, nothing terminal happens
\* and the file stays open.
C17_StopOnlyWayOut ==
  (hist.polls > 0 /\ hist.stopPoll = 0) =>
    /\ rec_state = 0
    /\ pc \notin { "done", "terminal" } /\ retval = -1
    /\ hist.visited = << 0 >>
    /\ hist.statusReads = 0 /\ hist.rereads = 0
    /\ term.runs = 0
    /\ fileOpen /\ ~Has("CLOSE") /\ ~Has("W_AICTRL3_STOP")

\* PollCap polls without a stop request, full blocks being drained meanwhile
C17_Witness ==
  /\ hist.polls = PollCap /\ hist.stopPoll = 0
  /\ hist.fullChunks >= 2 /\ fileLen >= 1024
  /\ rec_state = 0 /\ pc = "loop"

\* the pairs of keys of which the second is to undo the first
UndoPairs == { << "2", "8" >>, << "8", "2" >>, << "4", "6" >>, << "6", "4" >> }

\* C18: on the main menu key 2 moves the counter one item up and key 8 one
\* item down, key 4 three items up and key 6 three items down, all modulo the
\* 9 items; and after 2 then 8, 8 then 2, 4 then 6 or 6 then 4 the counter is
\* where it was before the first of the two keys, from every item 0..8.
C18_MenuNavigation ==
  /\ counter \in 0..8
  /\ Len(nav) >= 1 =>
       LET k == nav[Len(nav)].key
           c == nav[Len(nav)].from
       IN /\ k = "2" => counter = (c + 8) % 9
          /\ k = "8" => counter = (c + 1) % 9
          /\ k = "4" => counter = (c + 6) % 9
          /\ k = "6" => counter = (c + 3) % 9
  /\ Len(nav) = 2 =>
       (<< nav[1].key, nav[2].key >> \in UndoPairs => counter = nav[1].from)

\* key 6 at item 7 wrapped to item 1, key 4 brought the counter back to 7
C18_Witness ==
  /\ Len(nav) = 2
  /\ nav[1] = [ key |-> "6", from |-> 7 ]
  /\ nav[2] = [ key |-> "4", from |-> 1 ]
  /\ counter = 7

\* the playlist index play() is to open after the track at index p ended
Target(how, p) ==
  CASE how = "previous" -> IF p = 0 THEN playlen - 1 ELSE p - 1
    [] how = "next" -> p + 1
    [] how = "restart" -> p
    [] how = "end" -> p + 1
    [] OTHER -> -2

\* C19: the first playlist index opened after a track is the previous one
\* (the last one from index 0) after key 4, the following one after key 6,
\* the same one after key A and the following one after the track ended by
\* itself: one change of position per track, never two and never none.  After
\* a track that is an entry of the playlist, play() returns without opening
\* anything only after key 6 on the last entry or after an exit key.
C19_PlaylistKeys ==
  [][ /\ (track'.how # "none" /\ track'.opened # -1) =>
           track'.opened = Target(track'.how, track'.from)
      /\ (upc = "playLoop" /\ upc' = "menu" /\ track.how # "none"
          /\ track.opened = -1 /\ track.from < playlen) =>
           \/ track.how = "next" /\ track.from = playlen - 1
           \/ track.how = "exit"
      /\ (upc = "playing" /\ upc' = "playLoop") =>
           /\ track'.from = playnum
           /\ track'.key = "4" <=> track'.how = "previous"
           /\ track'.key = "6" <=> track'.how = "next"
           /\ track'.key = "A" <=> track'.how = "restart"
           /\ track'.key = "none" <=> track'.how = "end"
    ]_vars

\* key 4 on the first entry of a list of three: the last entry plays next
C19_Witness ==
  /\ upc = "playing" /\ playlen = 3
  /\ track.how = "previous" /\ track.key = "4" /\ track.from = 0
  /\ track.opened = 2 /\ playnum = 2

\* the keys of the keypad without a case of their own in play_commands()
ExitKeys == { "*", "8", "2", "0", "#", "B", "C", "D" }

\* C20: a key of ExitKeys pressed while a track plays stops the track, sets
\* playnum to playlen and the menu counter to 0, and the next thing play()
\* does is return: no file is opened and no track started after it.
C20_ExitKey ==
  [][ /\ (upc = "playing" /\ upc' = "playLoop") =>
           (track'.key \in ExitKeys <=> track'.how = "exit")
      /\ (upc = "playing" /\ upc' = "playLoop" /\ track'.how = "exit") =>
           /\ playnum' = playlen
           /\ counter' = 0
           /\ track'.opened = -1
      /\ (upc = "playLoop" /\ track.how = "exit") =>
           /\ upc' = "menu"
           /\ counter' = 0
           /\ track.opened = -1
    ]_vars

\* BACK pressed on the first of three entries: playback is over
C20_Witness ==
  /\ upc = "playLoop" /\ playlen = 3
  /\ track.how = "exit" /\ track.key = "*" /\ track.from = 0
  /\ playnum = 3 /\ counter = 0

\* C21: a filename completed with 'A' is track, the counter value as three
\* decimal digits with leading zeros, .ogg: each of the three characters is
\* a digit, for every value the counter takes; the counter starts at 0 and
\* goes up by one with each use.
C21_CounterName ==
  /\ named.by = "A" =>
       /\ filename = << Char0 + (named.n \div 100),
                        Char0 + ((named.n \div 10) % 10),
                        Char0 + (named.n % 10) >>
       /\ \A i \in 1..3 : filename[i] \in Char0..Char9
       /\ recfn = named.n + 1
  /\ recfn \in 0..999

\* a stop request as the two polls of an iteration can observe it
StopRequested(key, serial) == key \/ serial = "s"

\* C22: whatever the keypad and the serial line deliver at a poll, in state 0
\* a stop request sets state 1 and writes SCI_AICTRL3 := 1 once (also when
\* both inputs signal), and without a request nothing changes; in the states
\* 1 and 2 no input changes the state or writes a register (state 3 is not
\* polled); so a session writes the stop bit at most once.
C22_StopRequestOnce ==
  [][ /\ (pc = "loop" /\ rec_state < 3) =>
           \A key \in BOOLEAN, serial \in SerialInputs :
             LET after == AfterSerial(AfterKey(rec_state, key), serial)
                 writes == PollWrites(rec_state, key, serial)
             IN IF rec_state = 0 /\ StopRequested(key, serial)
                THEN after = 1 /\ writes = << "W_AICTRL3_STOP" >>
                ELSE after = rec_state /\ writes = << >>
      /\ (pc = "loop" /\ pc' = "hdat1") =>
           /\ rec_state < 3
           /\ rec_state >= 1 => (rec_state' = rec_state /\ trace' = trace)
           /\ rec_state = 0 =>
                \/ rec_state' = 0 /\ trace' = trace
                \/ rec_state' = 1 /\ trace' = Append(trace, "W_AICTRL3_STOP")
      /\ Count("W_AICTRL3_STOP")' <= 1
      /\ (pc # "loop" /\ InSession) =>
           Count("W_AICTRL3_STOP")' = Count("W_AICTRL3_STOP")
    ]_vars

\* a session polled again in state 2, the stop bit written once
C22_Witness ==
  /\ rec_state = 2 /\ pc = "hdat1"
  /\ hist.stopPoll > 0 /\ hist.polls > hist.stopPoll + 1
  /\ Count("W_AICTRL3_STOP") = 1

\* C23: the state goes from 1 to 2 only in the step that reads the counts and
\* the status in state 1, and only for a status with bit 1 set; that step
\* reads SCI_HDAT1 a second time, and the count the drain sub-loop of the
\* iteration starts from, for its first chunk or for leaving at once, is the
\* second count, whatever the first was.
C23_RereadAfterAck ==
  [][ /\ (rec_state' = 2 /\ rec_state # 2) =>
           /\ rec_state = 1 /\ pc = "hdat1" /\ pc' = "drain"
           /\ hist'.ack # << >>
           /\ hist'.rereads = hist.rereads + 1
           /\ hist'.statusReads >= 1
           /\ wordsWaiting' = hist'.ack[2]
      /\ (pc = "hdat1" /\ rec_state = 1) =>
           \A status \in StatusValues :
             StopAcknowledged(status) <=> status \in { 2, 6 }
      /\ (pc = "hdat1" /\ rec_state' = rec_state) => hist'.ack = << >>
      /\ (hist.ack # << >> /\ chunk'.n # chunk.n) =>
           /\ chunk'.n = 1
           /\ chunk'.entry = hist.ack[2] /\ chunk'.waiting = hist.ack[2]
           /\ chunk'.state = 2
      /\ (hist.ack # << >> /\ pc' = "loop") => hist.ack[2] = 0
    ]_vars

\* the stop acknowledged with 256 read first and 1 read again: the drain
\* sub-loop starts from 1
C23_Witness ==
  /\ pc = "drain" /\ rec_state = 2
  /\ hist.ack = << 256, 1 >> /\ wordsWaiting = 1

\* C24: the terminal word is handled only after a chunk whose wordsToRead is
\* below 256, which happens only in state 2 and only with nothing left
\* waiting; the handling sets state 3 and reads one data word, the last of
\* the session; a chunk of 256 does not lead to it; and a session that
\* returns 0 has handled the terminal word exactly once.
C24_TerminalOnce ==
  /\ pc = "terminal" =>
       /\ rec_state = 2 /\ chunk.state = 2
       /\ wordsToRead < 256 /\ wordsWaiting = 0
       /\ term.runs = 0
  /\ (pc = "drain" /\ chunk.n > 0 /\ term.runs = 0) => wordsToRead = 256
  /\ term.runs > 0 =>
       /\ term.runs = 1
       /\ term.from = 2 /\ term.left = 0
       /\ rec_state = 3
       /\ pc \in { "drain", "loop", "done" } /\ wordsWaiting = 0
       /\ wordsRead = term.wordsBefore + 1
  /\ rec_state = 3 => term.runs = 1
  /\ retval = 0 => term.runs = 1

\* a session returned 0 whose last chunk took the 256 words left in state 2
C24_Witness ==
  /\ pc = "done" /\ retval = 0 /\ term.runs = 1 /\ term.left = 0
  /\ chunk.state = 2 /\ chunk.waiting = 256 /\ chunk.reads = 254

\* C25: the terminal-word handling reads the last word, writes its high
\* byte, reads SCI_AICTRL3 twice with nothing in between, and writes the low
\* byte exactly when bit 2 of the second read is clear: for every value of
\* the first read the step leaves the same file length, the same accesses
\* and the same state, so the outcome does not depend on the first read.
C25_SecondReadDecides ==
  [][ pc = "terminal" =>
        /\ \A s1a \in StatusValues, s1b \in StatusValues, s2 \in StatusValues :
             /\ TerminalStatus(s1a, s2) = TerminalStatus(s1b, s2)
             /\ WriteLowByte(TerminalStatus(s1a, s2)) = ~Bit(s2, 2)
        /\ term'.low = ~Bit(term'.status2, 2)
        /\ fileLen' = fileLen + (IF Bit(term'.status2, 2) THEN 1 ELSE 2)
        /\ trace' = trace \o
             (IF Bit(term'.status2, 2)
              THEN << "R_HDAT0_LAST", "WRITE_HIGH", "R_AICTRL3", "R_AICTRL3" >>
              ELSE << "R_HDAT0_LAST", "WRITE_HIGH", "R_AICTRL3", "R_AICTRL3",
                      "WRITE_LOW" >>)
        /\ rec_state' = 3 /\ retval' = retval /\ wordsRead' = wordsRead + 1
    ]_vars

\* a finished session whose second read had bit 2 clear: both bytes written
\* after the two status reads
C25_Witness ==
  /\ pc = "done" /\ retval = 0
  /\ term.status2 = 2 /\ term.low /\ term.bytes = 2
  /\ Count("R_AICTRL3") = 2 /\ Has("WRITE_LOW")

(* ------------------- the transfer through the buffer ------------------- *)
\* full blocks one file is followed through
MaxBlocks == 2

\* wordsToRead of the next block is fixed (256, or what is left less the
\* last word); wordsToWrite = wordsToRead / 2; for (i = 0; ...
BufCount ==
  /\ bpc = "count"
  /\ \E wtr \in 0..BlockWords :
       /\ IsLastBlock(wtr) \/ fed < MaxBlocks * BlockWords
       /\ blockWords' = wtr
  /\ pass' = 0
  /\ bpc' = "fill"
  /\ UNCHANGED << wbuff, sink, fed >>
  /\ UNCHANGED << recVars, uiVars, nameVars, cn, pl >>

\* for (j = 0; j < wordsToWrite; j++) { data = Mp3ReadRegister(SCI_HDAT0); ... }
BufFill ==
  /\ bpc = "fill"
  /\ wbuff' = BufferFill(wbuff, fed + 1, WordsToWrite(blockWords))
  /\ fed' = fed + WordsToWrite(blockWords)
  /\ bpc' = "write"
  /\ UNCHANGED << sink, blockWords, pass >>
  /\ UNCHANGED << recVars, uiVars, nameVars, cn, pl >>

\* if (wordsToWrite) {file.write(wbuff, 2 * wordsToWrite);}  i++
BufWrite ==
  /\ bpc = "write"
  /\ sink' = IF WordsToWrite(blockWords) # 0
             THEN sink \o BufferWrite(wbuff, WordsToWrite(blockWords))
             ELSE sink
  /\ pass' = pass + 1
  /\ bpc' = IF pass + 1 < 2 THEN "fill"
            ELSE IF IsLastBlock(blockWords) THEN "last" ELSE "count"
  /\ UNCHANGED << wbuff, fed, blockWords >>
  /\ UNCHANGED << recVars, uiVars, nameVars, cn, pl >>

\* if (wordsToRead < 256): the last word is read and written byte by byte
BufLast ==
  /\ bpc = "last"
  /\ \E status1 \in StatusValues, status2 \in StatusValues :
       sink' = sink \o TerminalTransfer(fed + 1,
                          WriteLowByte(TerminalStatus(status1, status2)))
  /\ fed' = fed + 1
  /\ bpc' = "end"
  /\ UNCHANGED << wbuff, blockWords, pass >>
  /\ UNCHANGED << recVars, uiVars, nameVars, cn, pl >>

NextBuf ==
  \/ BufCount
  \/ BufFill
  \/ BufWrite
  \/ BufLast

SpecBuf == Init /\ [][NextBuf]_vars

\* the words number 1..n of the file, each as high byte then low byte
WordBytes(n) ==
  [ i \in 1..(2 * n) |->
      << (i + 1) \div 2, IF i % 2 = 1 THEN "high" ELSE "low" >> ]

\* C26: the file is at every moment the start of the sequence of the words
\* read from SCI_HDAT0, in the order read, each as high byte then low byte:
\* all of them between two blocks, all but the ones still in the buffer
\* between the filling of the buffer and its writing, and at the end all of
\* them but, if it was not written, the low byte of the last word; so the
\* second pass over the buffer repeats, swaps or loses nothing of the first.
C26_SinkIsStream ==
  /\ sink = SubSeq(WordBytes(fed), 1, Len(sink))
  /\ bpc \in { "count", "fill", "last" } => Len(sink) = 2 * fed
  /\ bpc = "write" => Len(sink) = 2 * (fed - WordsToWrite(blockWords))
  /\ bpc = "end" => Len(sink) \in { 2 * fed - 1, 2 * fed }

\* one full block, then a block of 40 words in two passes of 20 over the
\* buffer that still holds the end of the full block, then the last word
\* without its low byte
C26_Witness ==
  /\ bpc = "end"
  /\ blockWords = 40
  /\ fed = BlockWords + 41
  /\ Len(sink) = 2 * fed - 1
  /\ wbuff[40][1] = BlockWords \div 2 + 21
  /\ wbuff[39][1] = BlockWords + 40

\* C27: under fair scheduling of the sketch, whenever the stop has been
\* acknowledged (state 2) and a read of SCI_HDAT1 has given a count of at
\* least 1, record() goes on to set state 3 and to return 0, whatever counts
\* of 0 the polls before gave.
C27_ShutdownLive ==
  (pc = "drain" /\ rec_state = 2 /\ wordsWaiting >= 1)
    ~> (pc = "done" /\ retval = 0 /\ rec_state = 3)

\* returned 0 after a stop acknowledged with nothing waiting and words
\* reported only by a later poll
C27_Witness ==
  /\ pc = "done" /\ retval = 0 /\ rec_state = 3
  /\ hist.stopPoll >= 1 /\ hist.polls > hist.stopPoll
  /\ chunk.state = 2 /\ chunk.entry >= 1 /\ term.runs = 1

\* C28: a call of record() that has just been made has set rec_state to 0,
\* whatever the variable held at the call (0 at first, 0 after a call that
\* failed, 3 after a finished session); record() has returned 0 only with
\* rec_state = 3 and 1, 2 or 3 only with rec_state = 0.
C28_StateAtCallAndReturn ==
  /\ hist.entered # -1 => (pc = "wait1" /\ rec_state = 0)
  /\ (InSession /\ ~Has("OPEN_OK")) => rec_state = 0
  /\ retval = 0 => (pc = "done" /\ rec_state = 3)
  /\ retval \in { 1, 2, 3 } => (pc = "done" /\ rec_state = 0)
  /\ pc = "done" => retval \in 0..3

\* record() called again after a session that finished with rec_state = 3
C28_Witness ==
  /\ pc = "wait1"
  /\ hist.entered = 3
  /\ rec_state = 0
  /\ retval = -1

\* first place of call c in calls, 0 if it is not there
Place(calls, c) ==
  IF \E i \in 1..Len(calls) : calls[i] = c
  THEN CHOOSE i \in 1..Len(calls) :
         calls[i] = c /\ \A j \in 1..(i - 1) : calls[j] # c
  ELSE 0

\* C29: once record() has been called from the menu or from the serial
\* command '*', whatever it returned, the caller has called vs_init() and
\* after it setVolume(80, 80), the last thing it did; the sketch takes the
\* next key or command only after that.
C29_ReinitAfterRecord ==
  recCall.by # "none" =>
    /\ recCall.by \in { "menu", "serial" }
    /\ retval \in { 0, 1, 2 }
    /\ Place(recCall.calls, "vs_init") >= 1
    /\ Place(recCall.calls, "setVolume80") > Place(recCall.calls, "vs_init")
    /\ recCall.calls[Len(recCall.calls)] = "setVolume80"
    /\ upc \in { "menu", "playLoop", "playing" }

\* record() called from the serial line could not make the file
C29_Witness ==
  /\ recCall.by = "serial"
  /\ retval = 2
  /\ rec_state = 0
  /\ upc = "menu"

\* C30: playlist playback never runs while the card holds a recording made
\* after createPlaylist() last ran.
C30_PlaylistRebuilt ==
  upc \in { "playLoop", "playing" } => ~stale

\* the index at which the next pass of the loop of play() reads playlist[]
ReadIndex == AdvanceIfNotSkipped(skipped, playnum)

\* C31: whenever a pass of while (playnum < playlen) is about to run, the
\* index at which it reads playlist[] is within 0..playlen - 1, and so below
\* MAX_INDEX.
C31_IndexInList ==
  (upc = "playLoop" /\ playnum < playlen) =>
    (0 <= ReadIndex /\ ReadIndex < playlen /\ ReadIndex < MAX_INDEX)

\* C32: a pass of the loop of play() in which playMP3 reported an error is
\* followed, if the loop goes on, by a pass that reads the playlist entry
\* just after the one that could not be played.
C32_NextAfterFailure ==
  [][ ( /\ upc = "playLoop" /\ upc' = "playLoop"
        /\ playnum < playlen
        /\ playnum' = ReadIndex + 1
        /\ playnum' < playlen )
      => ReadIndex' = ReadIndex + 1
    ]_vars

\* C33: the menu counter is always one of the items 0..MENU_SIZE - 1, in
\* the menu after any keys and after any return from playback, and during
\* playback; so the three indices displayMenu() reads from menu[], and the
\* item parseMenu() is given, are within the array.
C33_CounterInMenu ==
  /\ counter \in 0..(MENU_SIZE - 1)
  /\ \A i \in 1..(LCD_ROWS - 1) : DisplayRows(counter)[i] \in 0..(MENU_SIZE - 1)
  /\ \A key \in Keys \ { ENTER } :
       NavCounter(key, counter) \in 0..(MENU_SIZE - 1)

\* back in the menu after a playback, the counter moved up from the first
\* item to the last, whose display wraps to the items 0 and 1
C33_Witness ==
  /\ upc = "menu"
  /\ playlen > 0 /\ playnum = playlen
  /\ counter = MENU_SIZE - 1
  /\ Len(nav) >= 1 /\ nav[Len(nav)] = [ key |-> UP, from |-> 0 ]
  /\ DisplayRows(counter) = << 8, 0, 1 >>

(* ------------------------------ createName ----------------------------- *)
\* key presses one call of createName() is followed through
MaxPresses == 4

\* character codes
CharSpace == 32
CharUpperA == 65
CharUpperZ == 90
CharLowerA == 97
CharLowerZ == 122
CaseGap == 32

\* last index of the name proper: the eight characters of an 8.3 filename
LastNameIndex == 7

\* the keys with digits, in the order of their digits
DigitKeys == << "0", "1", "2", "3", "4", "5", "6", "7", "8", "9" >>

\* key - '0' for a key with a digit
DigitOf(key) == CHOOSE d \in 0..9 : DigitKeys[d + 1] = key

\* key > '1' && key <= '9'
RotatingKeys == { DigitKeys[d + 1] : d \in 2..9 }

\* 'a' + 3 * (key - '0' - 2), and if (key > '7') one more
FirstLetter(key) ==
  CharLowerA + 3 * (DigitOf(key) - 2) + (IF DigitOf(key) > 7 THEN 1 ELSE 0)

\* limit = (key == '7' || key == '9') ? 3 : 2
LimitOf(key) == IF key \in { "7", "9" } THEN 3 ELSE 2

\* trackname[] is kept as bytes 0..255.  char is signed in avr-gcc, the
\* compiler of the boards the sketch is written for: in a comparison a byte
\* from 128 on is a negative number
SignBit == 128
SignedChar(c) == IF c >= SignBit THEN c - Byte8 ELSE c

\* key 'A': an upper-case letter becomes lower case, a lower-case one upper
ToggleCase(c) ==
  IF SignedChar(c) >= CharUpperA /\ SignedChar(c) <= CharUpperZ
  THEN (c + CaseGap) % Byte8
  ELSE IF SignedChar(c) >= CharLowerA /\ SignedChar(c) <= CharLowerZ
       THEN (c - CaseGap) % Byte8
       ELSE c

\* One pass of while (key = keypad.waitForKey()) for the key pressed.  With
\* index = -1 the key 'A' reads trackname[-1], a byte outside the buffer,
\* and writes it if it holds a letter: letter says which.
KeyStep(st, key, letter) ==
  LET idx == st.index
  IN CASE key = "A" ->
            IF idx \in 0..(MAX_BUFF - 1)
            THEN [ st EXCEPT !.trackname[idx] = ToggleCase(@) ]
            ELSE [ st EXCEPT !.outside = IF letter THEN "written" ELSE "read" ]
       [] key = "1" ->
            [ st EXCEPT !.prevkey = IF idx # LastNameIndex THEN "none" ELSE @,
                        !.cnt = 0 ]
       [] key \in RotatingKeys ->
            IF key # st.prevkey
            THEN LET at == IF idx < LastNameIndex THEN idx + 1 ELSE idx
                 IN [ st EXCEPT !.index = at,
                                !.trackname[at] = FirstLetter(key),
                                !.limit = LimitOf(key),
                                !.prevkey = key,
                                !.cnt = 1 ]
            ELSE IF st.cnt > st.limit
                 THEN [ st EXCEPT !.trackname[idx] = (@ - st.limit) % Byte8,
                                  !.cnt = 1 ]
                 ELSE [ st EXCEPT !.trackname[idx] = (@ + 1) % Byte8,
                                  !.cnt = (@ + 1) % Byte8 ]
       [] key = "#" ->
            IF st.cnt >= 0 /\ idx < LastNameIndex
            THEN [ st EXCEPT !.index = idx + 1,
                             !.trackname[idx + 1] = Char0,
                             !.cnt = (-1) % Byte8 ]
            ELSE LET c == (st.trackname[idx] + 1) % Byte8
                 IN [ st EXCEPT !.trackname[idx] =
                                  IF SignedChar(c) > Char9 THEN Char0 ELSE c ]
       [] key = "*" /\ idx > -1 ->
            [ st EXCEPT !.trackname[idx] = CharSpace,
                        !.index = idx - 1,
                        !.prevkey = "none" ]
       [] key = "0" /\ idx > -1 ->
            [ st EXCEPT !.index = idx + 1, !.pc = "ext" ]
       [] OTHER -> st

\* the indices of trackname[] the pass for the key reads or writes
Touched(st, key) ==
  LET idx == st.index
  IN CASE key = "A" -> { idx }
       [] key \in RotatingKeys ->
            IF key # st.prevkey
            THEN { IF idx < LastNameIndex THEN idx + 1 ELSE idx }
            ELSE { idx }
       [] key = "#" ->
            IF st.cnt >= 0 /\ idx < LastNameIndex THEN { idx + 1 } ELSE { idx }
       [] key = "*" /\ idx > -1 -> { idx }
       [] OTHER -> { }

\* ".ogg" and ".mp3" with their terminators
ExtOgg == << 46, 111, 103, 103, 0 >>
ExtMp3 == << 46, 109, 112, 51, 0 >>

\* strcpy(trackname + index, ext)
CopyExt(name, index, ext) ==
  [ i \in 0..(MAX_BUFF - 1) |->
      IF i >= index /\ i < index + Len(ext) THEN ext[i - index + 1] ELSE name[i] ]

\* createName(trackname) is called: memset(trackname, 0, MAX_BUFF)
NameBegin ==
  /\ cn.pc \in { "idle", "done" }
  /\ cn' = [ NoName EXCEPT !.pc = "keys" ]
  /\ UNCHANGED << recVars, uiVars, nameVars, bufVars, pl >>

\* keypad.waitForKey() returned a key; cn.last keeps it
NameKey ==
  /\ cn.pc = "keys"
  /\ cn.presses < MaxPresses
  /\ \E key \in Keys, letter \in BOOLEAN :
       cn' = [ KeyStep(cn, key, letter) EXCEPT !.last = key,
                                               !.presses = cn.presses + 1 ]
  /\ UNCHANGED << recVars, uiVars, nameVars, bufVars, pl >>

\* after the loop: RIGHT chooses ".ogg", any other key ".mp3"
NameExt ==
  /\ cn.pc = "ext"
  /\ \E key \in Keys :
       cn' = [ cn EXCEPT !.trackname = CopyExt(@, cn.index,
                                               IF key = RIGHT THEN ExtOgg ELSE ExtMp3),
                         !.last = key,
                         !.pc = "done" ]
  /\ UNCHANGED << recVars, uiVars, nameVars, bufVars, pl >>

NextCreateName ==
  \/ NameBegin
  \/ NameKey
  \/ NameExt

SpecCreateName == Init /\ [][NextCreateName]_vars

\* C34: while keys are taken, a press of '#' that does not follow another
\* press of '#' appends the digit 0 as a new character, and one that does
\* leaves the length alone and turns that digit into the next one, 9 into 0.
C34_HashCounts ==
  cn.pc = "keys" =>
    LET n == KeyStep(cn, "#", FALSE)
    IN IF cn.last # "#"
       THEN n.index = cn.index + 1 /\ n.trackname[n.index] = Char0
       ELSE /\ n.index = cn.index
            /\ n.trackname[n.index] =
                 Char0 + ((cn.trackname[cn.index] - Char0 + 1) % 10)

\* the letters documented for the keys 2 to 9, as character codes
KeyLetters(key) ==
  CASE key = "2" -> << 97, 98, 99 >>
    [] key = "3" -> << 100, 101, 102 >>
    [] key = "4" -> << 103, 104, 105 >>
    [] key = "5" -> << 106, 107, 108 >>
    [] key = "6" -> << 109, 110, 111 >>
    [] key = "7" -> << 112, 113, 114, 115 >>
    [] key = "8" -> << 116, 117, 118 >>
    [] key = "9" -> << 119, 120, 121, 122 >>

\* a letter in lower case, any other character as it is
Lower(c) == IF c >= CharUpperA /\ c <= CharUpperZ THEN c + CaseGap ELSE c

\* a letter of either case, a digit, the space a delete leaves, or the 0 of
\* a place not written yet
NameChar(c) ==
  \/ c = 0
  \/ c = CharSpace
  \/ (c >= Char0 /\ c <= Char9)
  \/ (Lower(c) >= CharLowerA /\ Lower(c) <= CharLowerZ)

\* C35: while keys are taken, every character of the name is a letter, a
\* digit or a space, and whatever key of 2 to 9 comes next leaves at the
\* current place one of its own letters (in either case): the first of them
\* after another key, the one after the present letter, cyclically, when the
\* same key was the last one pressed.
C35_KeysGiveTheirLetters ==
  cn.pc = "keys" =>
    /\ \A i \in 0..(MAX_BUFF - 1) : NameChar(cn.trackname[i])
    /\ \A key \in RotatingKeys :
         LET n == KeyStep(cn, key, FALSE)
             c == n.trackname[n.index]
             own == KeyLetters(key)
         IN /\ \E k \in 1..Len(own) : Lower(c) = own[k]
            /\ (cn.last = key /\ cn.index >= 0) =>
                 \E k \in 1..Len(own) :
                   /\ cn.trackname[cn.index] = own[k]
                   /\ c = own[(k % Len(own)) + 1]
                   /\ n.index = cn.index

\* C36: while keys are taken no key makes createName() read or write
\* trackname[] outside 0..MAX_BUFF - 1, nothing outside it has been touched,
\* and a finished name has at least one character before its extension and
\* ends, terminator included, within the buffer.
C36_NameInBuffer ==
  /\ cn.outside = "untouched"
  /\ cn.pc = "keys" =>
       \A key \in Keys : Touched(cn, key) \subseteq 0..(MAX_BUFF - 1)
  /\ cn.pc \in { "ext", "done" } =>
       (cn.index >= 1 /\ cn.index + Len(ExtOgg) <= MAX_BUFF)
  /\ cn.pc = "done" =>
       /\ cn.trackname[cn.index + Len(ExtOgg) - 1] = 0
       /\ \A i \in 0..(cn.index + Len(ExtOgg) - 2) : cn.trackname[i] # 0

(* ---------------------------- createPlaylist --------------------------- *)
\* entries of the directories createPlaylist() is followed through
MaxDir == 52

\* what createPlaylist() finds for a directory entry: a music file, a file
\* that is no music file, a file whose name cannot be read
EntryKinds == { "music", "other", "noname" }

\* a directory of n entries of one kind, one of n entries of which every
\* second, from the second on, is a music file, and one with its music
\* files behind a first block of other files
Uniform(n, kind) == [ i \in 1..n |-> kind ]
Alternate(n) == [ i \in 1..n |-> IF i % 2 = 0 THEN "music" ELSE "noname" ]
MusicLast(n) == [ i \in 1..n |-> IF i > 2 THEN "music" ELSE "other" ]

Directories ==
  { Uniform(n, k) : n \in 0..MaxDir, k \in EntryKinds }
    \cup { Alternate(n) : n \in 0..MaxDir }
    \cup { MusicLast(n) : n \in 0..MaxDir }

\* mutant of ClearPlaylist: the memset forgotten
ClearPlaylistKept(list) == list

\* memset(playlist, 0, sizeof(playlist))
ClearPlaylist(list) == [ i \in DOMAIN list |-> 0 ]

\* (sd.vwd()->curPosition() / 32) - 1 after pos entries have been read
FileIndex(pos) == (pos - 1) % Word16

\* createPlaylist() is called, with the card as it is then: playlen = 0;
\* memset; rewind
ScanBegin ==
  /\ pl.pc \in { "idle", "done" }
  /\ \E dir \in Directories :
       pl' = [ pc |-> "scan", playlen |-> 0,
               playlist |-> ClearPlaylist(pl.playlist),
               dir |-> dir, pos |-> 0, opened |-> 0, closed |-> 0 ]
  /\ UNCHANGED << recVars, uiVars, nameVars, bufVars, cn >>

\* one pass of while (playlen < MAX_INDEX && file.openNext(...)): the next
\* entry is opened, stored if it is a music file whose name can be read,
\* and closed
ScanEntry ==
  /\ pl.pc = "scan"
  /\ pl.playlen < MAX_INDEX
  /\ pl.pos < Len(pl.dir)
  /\ LET kind == pl.dir[pl.pos + 1]
         pos == pl.pos + 1
     IN pl' = [ pl EXCEPT
                  !.pos = pos,
                  !.opened = @ + 1,
                  !.closed = @ + 1,
                  !.playlist = IF kind = "music"
                               THEN [ @ EXCEPT ![pl.playlen] = FileIndex(pos) ]
                               ELSE @,
                  !.playlen = IF kind = "music" THEN @ + 1 ELSE @ ]
  /\ UNCHANGED << recVars, uiVars, nameVars, bufVars, cn >>

\* the loop ends: the list is full, and no file is opened, or openNext()
\* found no further entry
ScanEnd ==
  /\ pl.pc = "scan"
  /\ ~(pl.playlen < MAX_INDEX /\ pl.pos < Len(pl.dir))
  /\ pl' = [ pl EXCEPT !.pc = "done" ]
  /\ UNCHANGED << recVars, uiVars, nameVars, bufVars, cn >>

NextPlaylist ==
  \/ ScanBegin
  \/ ScanEntry
  \/ ScanEnd

SpecPlaylist == Init /\ [][NextPlaylist]_vars

\* music files among the first n entries of a directory
MusicIn(dir, n) == Cardinality({ i \in 1..n : dir[i] = "music" })

\* C37: during and after createPlaylist() playlen is within 0..MAX_INDEX,
\* the slots below playlen hold the indices of the music files found so
\* far, in the order of the directory, every slot from playlen on is zero,
\* and every file that was opened has been closed; after it playlen is the
\* number of music files of the directory, or MAX_INDEX if there are more.
C37_PlaylistBuilt ==
  /\ pl.playlen \in 0..MAX_INDEX
  /\ DOMAIN pl.playlist = 0..(MAX_INDEX - 1)
  /\ pl.playlen = MusicIn(pl.dir, pl.pos)
  /\ \A i \in 0..(MAX_INDEX - 1) :
       IF i < pl.playlen
       THEN /\ pl.playlist[i] \in 0..(pl.pos - 1)
            /\ pl.dir[pl.playlist[i] + 1] = "music"
            /\ i > 0 => pl.playlist[i - 1] < pl.playlist[i]
       ELSE pl.playlist[i] = 0
  /\ pl.opened = pl.closed
  /\ pl.pc = "done" =>
       pl.playlen = IF MusicIn(pl.dir, Len(pl.dir)) < MAX_INDEX
                    THEN MusicIn(pl.dir, Len(pl.dir)) ELSE MAX_INDEX

\* a scan of a card with more music files than the list holds has stopped
\* at MAX_INDEX, the last slot filled, entries of the directory left unread
C37_Witness ==
  /\ pl.pc = "done"
  /\ pl.playlen = MAX_INDEX
  /\ pl.pos < Len(pl.dir)
  /\ pl.playlist[MAX_INDEX - 1] = pl.pos - 1
  /\ pl.opened = pl.pos

====
